---- MODULE Spec2Model ----
(***************************************************************************)
(* Verification model of macropy's source-extent resolver                  *)
(* (macropy/core/exact_src.py) and of the trace line cache of              *)
(* macropy/tracing.py.                                                     *)
(*                                                                         *)
(* Four specifications share this module:                                  *)
(*   SpecLinear  linear_index as a pure function of its three arguments    *)
(*   SpecBound   the successor-bound loop of exact_src_imp, step by step   *)
(*   SpecLog     log() calls that share one line_cache set                 *)
(*   Spec        exact_src(tree, src) and the resolve calls made on the    *)
(*               function it returns                                       *)
(* Text is a sequence of one-character strings; offsets are 0-based as in  *)
(* Python, sequences 1-based as in TLA+.                                   *)
(***************************************************************************)
EXTENDS Integers, Sequences, FiniteSets, TLC

VARIABLES
    \* ---- SpecLinear: one call of linear_index
    line_lengths,           \* argument line_lengths
    lineno,                 \* argument lineno
    col_offset,             \* argument col_offset
    out,                    \* <<the returned offset>>, <<>> before the call
    \* ---- SpecBound: locals of exact_src_imp, lines 53-59
    indexes,                \* the value of indexes()
    last_child_index,
    idxs_idx,
    first_successor_index,
    pc,                     \* "start", "loop", "done" or "IndexError"
    \* ---- SpecLog: tracing.log and the module-level line_cache
    line_cache,             \* tracing.line_cache, a set of lines
    log_x,                  \* str(x) of the last call
    log_split,              \* split as the last call printed it, <<>> if it printed nothing
    log_s,                  \* the text s the last call built, <<>> if it built none
    log_kw,                 \* the keyword arguments of the last call
    log_result,             \* "printed", "skipped", "AssertionError", "IndexError"
    \* ---- Spec: the closure exact_src(tree, src) returns, and its calls
    legacy_positions,       \* the parser records the positions of CPython <= 3.7
    src,                    \* the source text
    tree,                   \* the tree ast.parse made of src
    positions_lazy,         \* Lazy positions: <<>> or <<its value>>
    line_lengths_lazy,      \* Lazy line_lengths: <<>> or <<its value>>
    indexes_lazy,           \* Lazy indexes: <<>> or <<its value>>
    thunk_runs,             \* how often each Lazy ran its thunk
    query,                  \* the subtree of the last resolve call
    result                  \* what that call returned or raised

linearVars == <<line_lengths, lineno, col_offset, out>>
boundVars == <<indexes, last_child_index, idxs_idx, first_successor_index, pc>>
logVars == <<line_cache, log_x, log_split, log_s, log_kw, log_result>>
srcVars == <<legacy_positions, src, tree, positions_lazy, line_lengths_lazy, indexes_lazy,
             thunk_runs, query, result>>
vars == <<linearVars, boundVars, logVars, srcVars>>

\* What the actions of one specification leave alone.
notLinear == <<boundVars, logVars, srcVars>>
notBound == <<linearVars, logVars, srcVars>>
notLog == <<linearVars, boundVars, srcVars>>
notSrc == <<linearVars, boundVars, logVars>>

idleLinear ==
    /\ line_lengths = <<>>
    /\ lineno = 0
    /\ col_offset = 0
    /\ out = <<>>

idleBound ==
    /\ indexes = <<>>
    /\ last_child_index = 0
    /\ idxs_idx = 0
    /\ first_successor_index = 0
    /\ pc = "idle"

idleLog ==
    /\ line_cache = {}
    /\ log_x = <<>>
    /\ log_split = <<>>
    /\ log_s = <<>>
    /\ log_kw = <<>>
    /\ log_result = "idle"

idleSrc ==
    /\ legacy_positions = FALSE
    /\ src = <<>>
    /\ tree = <<>>
    /\ positions_lazy = <<>>
    /\ line_lengths_lazy = <<>>
    /\ indexes_lazy = <<>>
    /\ thunk_runs = <<>>
    /\ query = <<>>
    /\ result = <<>>

Min(a, b) == IF a <= b THEN a ELSE b
Max(a, b) == IF a >= b THEN a ELSE b

(***************************************************************************)
(* Python builtins used by the code.                                       *)
(***************************************************************************)
RECURSIVE sum(_)
sum(s) == IF s = <<>> THEN 0 ELSE Head(s) + sum(Tail(s))

\* s[:n]
SliceTo(s, n) ==
    IF n >= 0 THEN SubSeq(s, 1, Min(n, Len(s)))
    ELSE SubSeq(s, 1, Max(Len(s) + n, 0))

\* s[i], 0-based, for 0 <= i < len(s)
At(s, i) == s[i + 1]

\* s.index(v), 0-based; v occurs in s
IndexOf(s, v) == (CHOOSE i \in 1..Len(s) : s[i] = v /\ \A j \in 1..(i - 1) : s[j] # v) - 1

\* t[i:i+len(pat)] == pat
StartsWithAt(t, i, pat) ==
    i + Len(pat) <= Len(t) /\ SubSeq(t, i + 1, i + Len(pat)) = pat

\* t.find(pat, i), -1 when absent
RECURSIVE FindFrom(_, _, _)
FindFrom(t, pat, i) ==
    IF i + Len(pat) > Len(t) THEN -1
    ELSE IF StartsWithAt(t, i, pat) THEN i
    ELSE FindFrom(t, pat, i + 1)

Find(t, pat) == FindFrom(t, pat, 0)

\* pat in t
Contains(t, pat) == Find(t, pat) # -1

\* t.partition(sep)[0] and t.partition(sep)[-1]
PartitionHead(t, sep) == IF Contains(t, sep) THEN SubSeq(t, 1, Find(t, sep)) ELSE t
PartitionTail(t, sep) ==
    IF Contains(t, sep) THEN SubSeq(t, Find(t, sep) + Len(sep) + 1, Len(t)) ELSE <<>>

\* t.splitlines(); "\n" is the only line boundary of the texts modelled
RECURSIVE splitlines(_)
splitlines(t) ==
    IF t = <<>> THEN <<>>
    ELSE LET i == Find(t, <<"\n">>)
         IN  IF i = -1 THEN <<t>>
             ELSE <<SubSeq(t, 1, i)>> \o splitlines(SubSeq(t, i + 2, Len(t)))

\* sep.join(ls)
RECURSIVE join(_, _)
join(sep, ls) ==
    IF ls = <<>> THEN <<>>
    ELSE IF Len(ls) = 1 THEN ls[1]
    ELSE ls[1] \o sep \o join(sep, Tail(ls))

\* t * n
RECURSIVE Repeat(_, _)
Repeat(t, n) == IF n <= 0 THEN <<>> ELSE t \o Repeat(t, n - 1)

(***************************************************************************)
(* linear_index                                                            *)
(***************************************************************************)
\* linear_index counting one newline too many: lineno-1 for lineno-2
linear_index_prev_lineno(ll, l, c) ==
    LET prev_length == sum(SliceTo(ll, l - 1)) + l - 1
    IN  prev_length + c + 1

\* lines 15-18
linear_index(ll, l, c) ==
    LET prev_length == sum(SliceTo(ll, l - 1)) + l - 2
    IN  prev_length + c + 1

\* Bounds of SpecLinear
MaxLines == 3
MaxLineLen == 10
MaxCol == 2

LineTables == UNION {[1..n -> 0..MaxLineLen] : n \in 1..MaxLines}

LinearInit ==
    /\ line_lengths \in LineTables
    /\ lineno \in 1..Len(line_lengths)
    /\ col_offset \in 0..MaxCol
    /\ out = <<>>
    /\ idleBound
    /\ idleLog
    /\ idleSrc

CallLinearIndex ==
    /\ out = <<>>
    /\ out' = <<linear_index(line_lengths, lineno, col_offset)>>
    /\ UNCHANGED <<line_lengths, lineno, col_offset, notLinear>>

LinearNext == CallLinearIndex

SpecLinear == LinearInit /\ [][LinearNext]_vars

\* C8: for every line-length table, every 1-based line within it and every
\* column >= 0, linear_index is (sum of the lengths of the lines strictly
\* before the line) + (line - 2) + (column + 1); for line lengths [5, 0, 10]
\* the offset of (line 3, column 2) is 5 + 0 + 1 + 1 + 2 = 9.
C8_OffsetArithmetic ==
    LET RECURSIVE LengthsBefore(_, _)
        LengthsBefore(ll, l) == IF l <= 1 THEN 0 ELSE ll[l - 1] + LengthsBefore(ll, l - 1)
    IN  out # <<>> =>
        /\ out[1] = LengthsBefore(line_lengths, lineno) + (lineno - 2) + (col_offset + 1)
        /\ (line_lengths = <<5, 0, 10>> /\ lineno = 3 /\ col_offset = 2) => out[1] = 9

\* linear_index was called on the table [5, 0, 10] at line 3, column 2.
C8_Witness ==
    /\ line_lengths = <<5, 0, 10>>
    /\ lineno = 3
    /\ col_offset = 2
    /\ out = <<5 + 0 + 1 + 1 + 2>>

(***************************************************************************)
(* The successor bound, exact_src_imp lines 53-59, one step per action.    *)
(***************************************************************************)
\* Bounds of SpecBound
MaxIdxLen == 4
MaxOffset == 3

\* indexes() is what util.distinct returns; exact_src_imp itself puts no
\* order on it, so the loop is run on every sequence of offsets, repeated
\* and unordered entries included, with last_child_index one of them
\* (line 53 looks it up).
BoundInit ==
    /\ indexes \in UNION {[1..n -> 0..MaxOffset] : n \in 1..MaxIdxLen}
    /\ last_child_index \in {indexes[i] : i \in 1..Len(indexes)}
    /\ idxs_idx = 0
    /\ first_successor_index = 0
    /\ pc = "start"
    /\ idleLinear
    /\ idleLog
    /\ idleSrc

\* idxs_idx = min(indexes().index(last_child_index)+1, len(indexes())-1)
FirstIdx(idx, last) == Min(IndexOf(idx, last) + 1, Len(idx) - 1)

\* The loop condition without the -1: the last iteration reads
\* indexes()[len(indexes())]
LoopCond_NoExhaustionCheck(idx, last, i, succ) == succ <= last /\ i < Len(idx)

\* while first_successor_index <= last_child_index and idxs_idx < len(indexes())-1
LoopCond(idx, last, i, succ) == succ <= last /\ i < Len(idx) - 1

\* lines 53-55
BoundStart ==
    /\ pc = "start"
    /\ idxs_idx' = FirstIdx(indexes, last_child_index)
    /\ first_successor_index' = At(indexes, idxs_idx')
    /\ pc' = "loop"
    /\ UNCHANGED <<indexes, last_child_index, notBound>>

\* lines 57-59, one iteration; reading indexes()[len(indexes())] raises
BoundAdvance ==
    /\ pc = "loop"
    /\ LoopCond(indexes, last_child_index, idxs_idx, first_successor_index)
    /\ idxs_idx' = idxs_idx + 1
    /\ IF idxs_idx' < Len(indexes)
       THEN first_successor_index' = At(indexes, idxs_idx') /\ pc' = "loop"
       ELSE first_successor_index' = first_successor_index /\ pc' = "IndexError"
    /\ UNCHANGED <<indexes, last_child_index, notBound>>

\* line 57, the loop condition is false
BoundExit ==
    /\ pc = "loop"
    /\ ~LoopCond(indexes, last_child_index, idxs_idx, first_successor_index)
    /\ pc' = "done"
    /\ UNCHANGED <<indexes, last_child_index, idxs_idx, first_successor_index, notBound>>

BoundNext == BoundStart \/ BoundAdvance \/ BoundExit

\* The resolver is sequential code: a step that can run does run.
SpecBound == BoundInit /\ [][BoundNext]_vars /\ WF_vars(BoundNext)

\* C9: for every Offset Index and every last offset in it the bound-extension
\* loop terminates, never reads the index past its final entry, and ends with
\* successor = the first entry after position_of(last) that is greater than
\* last, or the final entry if there is none.
C9_SuccessorBound ==
    /\ [](pc # "IndexError" /\ idxs_idx < Len(indexes))
    /\ [](pc = "done" =>
            LET position_of_last == CHOOSE i \in 1..Len(indexes) :
                                        /\ indexes[i] = last_child_index
                                        /\ \A j \in 1..(i - 1) : indexes[j] # last_child_index
                later == {i \in 1..Len(indexes) :
                            i > position_of_last /\ indexes[i] > last_child_index}
            IN  first_successor_index =
                    IF later = {} THEN indexes[Len(indexes)]
                    ELSE indexes[CHOOSE i \in later : \A j \in later : i <= j])
    /\ <>(pc = "done")

\* The loop advanced over entries sharing offsets at or below last, up to
\* the final entry.
C9_Witness ==
    /\ pc = "done"
    /\ idxs_idx > IndexOf(indexes, last_child_index) + 1
    /\ idxs_idx = Len(indexes) - 1
    /\ \E i, j \in 1..Len(indexes) : i # j /\ indexes[i] = indexes[j]

(***************************************************************************)
(* tracing.log with a shared line_cache, tracing.py lines 266-309.         *)
(***************************************************************************)
\* The one-character string U+2026
Ellipsis == "ELLIPSIS"

\* The one-character string U+2022
Bullet == "BULLET"

truncate_line(t, max_rep_line_len) ==
    IF Len(t) > max_rep_line_len /\ ~Contains(t, <<"-", ">">>)
    THEN SliceTo(t, max_rep_line_len) \o <<Ellipsis>>
    ELSE t

\* Bounds of SpecLog
MaxMsgLines == 3
MaxStackSub == 1

\* A line longer than max_rep_line_len = 40
LongLine == [i \in 1..41 |-> "z"]

\* The lines messages are made of: plain ones, and two that the skip_same
\* and skip_builtins tests of lines 291-295 recognise in a one-line message
PlainLines == {<<"a", "b">>, LongLine}

SkippedLines == {<<"a", " ", "-", ">", " ", "a">>,
                 <<"f", " ", "-", ">", " ", "<", "b", "u", "i", "l", "t", "-", "i", "n", " ", "f", ">">>}

\* A message as the list of its lines, str(x) being their join
MessageLines ==
    [1..1 -> SkippedLines] \cup UNION {[1..n -> PlainLines] : n \in 0..MaxMsgLines}

\* The keyword arguments log is called with: its defaults (lines 269-275)
\* and those trace_set passes (lines 196-204). cached: line_cache is the
\* shared set rather than None.
DefaultKwargs ==
    [use_stack_depth |-> FALSE, cached |-> FALSE, max_rep_line_len |-> 40,
     use_bullet |-> FALSE, skip_builtins |-> FALSE, skip_same |-> FALSE]

TraceSetKwargs ==
    [use_stack_depth |-> TRUE, cached |-> TRUE, max_rep_line_len |-> 40,
     use_bullet |-> TRUE, skip_builtins |-> TRUE, skip_same |-> TRUE]

LogInit ==
    /\ line_cache = {}
    /\ log_x = <<>>
    /\ log_split = <<>>
    /\ log_s = <<>>
    /\ log_kw = <<>>
    /\ log_result = "none"
    /\ idleLinear
    /\ idleBound
    /\ idleSrc

\* split[0] in line_cache, line 298
CacheHit(sp, cached) == cached /\ sp # <<>> /\ sp[1] \in line_cache

\* split after lines 297-305
SplitAfterCache(sp, cached, max_rep_line_len) ==
    IF CacheHit(sp, cached)
    THEN LET tr == [i \in 1..Len(sp) |-> truncate_line(sp[i], max_rep_line_len)]
         IN  IF Len(tr) > 2 THEN <<tr[1], <<Ellipsis>>, tr[Len(tr)]>> ELSE tr
    ELSE sp

\* One call log(x, **kw). stack_depth: what stack_size4b() returns.
log(msg, stack_depth, kw) ==
    LET stack_depth_sub == IF kw.use_stack_depth THEN stack_depth - 7 ELSE 0
        cached == kw.cached
        sp == splitlines(msg)
        sep == <<" ", "-", ">", " ">>
        skip == \/ kw.skip_builtins /\ Len(sp) = 1 /\ Contains(sp[1], <<"-", ">", " ", "<", "b", "u", "i", "l", "t", "-", "i", "n", " ">>)
                \/ /\ kw.skip_same /\ Len(sp) = 1 /\ Contains(sp[1], sep)
                   /\ PartitionHead(sp[1], sep) = PartitionTail(sp[1], sep)
        prefix == IF kw.use_bullet THEN <<Bullet, " ">> ELSE <<>>
        final == SplitAfterCache(sp, cached, kw.max_rep_line_len)
    IN  /\ log_x' = msg
        /\ log_kw' = kw
        /\ IF skip
           THEN /\ log_result' = "skipped"
                /\ log_split' = <<>>
                /\ log_s' = <<>>
                /\ UNCHANGED line_cache
           ELSE IF cached /\ sp = <<>>
           THEN \* split[0] of an empty list
                /\ log_result' = "IndexError"
                /\ log_split' = <<>>
                /\ log_s' = <<>>
                /\ UNCHANGED line_cache
           ELSE IF CacheHit(sp, cached) /\ \E i \in 1..Len(sp) : sp[i] \notin line_cache
           THEN \* assert all(sp in line_cache for sp in split)
                /\ log_result' = "AssertionError"
                /\ log_split' = <<>>
                /\ log_s' = <<>>
                /\ UNCHANGED line_cache
           ELSE /\ line_cache' = IF cached /\ ~CacheHit(sp, cached)
                                 THEN line_cache \cup {sp[i] : i \in 1..Len(sp)}
                                 ELSE line_cache
                /\ log_split' = final
                /\ log_s' = join(<<"\n">>,
                                 [i \in 1..Len(final) |->
                                     Repeat(<<" ", " ", " ", " ">>, stack_depth_sub) \o prefix \o final[i]])
                /\ log_result' = "printed"
        /\ UNCHANGED notLog

Log ==
    \E ls \in MessageLines, kw \in {DefaultKwargs, TraceSetKwargs} :
        \E stack_depth \in IF kw.use_stack_depth THEN 7..(7 + MaxStackSub) ELSE {7} :
            log(join(<<"\n">>, ls), stack_depth, kw)

LogNext == Log

SpecLog == LogInit /\ [][LogNext]_vars

\* C10: over any sequence of log calls sharing one line_cache, whenever the
\* first line of a message is in the cache every line of it is, so the
\* assertion in log never fails; a message whose first line is not cached
\* has all its lines added to the cache and is printed untruncated.
C10_CacheAssertion ==
    [][/\ log_result' # "AssertionError"
       /\ (/\ log_result' = "printed"
           /\ log_kw'.cached
           /\ splitlines(log_x')[1] \notin line_cache)
          => /\ \A i \in 1..Len(splitlines(log_x')) :
                    splitlines(log_x')[i] \in line_cache'
             /\ log_split' = splitlines(log_x')]_vars
(***************************************************************************)
(* Syntax trees.  A node is a record [kind, lineno, col_offset, id, kids]; *)
(* lineno = 0 marks the nodes the parser gives no position (operators,     *)
(* expression contexts, comprehension clauses, Module) and the Python      *)
(* lists that list-valued fields hold (kind "list").  kids are the fields  *)
(* a Walker descends into, in the order of _fields.                        *)
(***************************************************************************)
Node(kind, pos, id, kids) ==
    [kind |-> kind, lineno |-> pos[1], col_offset |-> pos[2], id |-> id, kids |-> kids]

NoPos == <<0, 0>>

ExprKinds == {"Name", "BinOp", "Compare", "IfExp", "Tuple", "List", "GeneratorExp", "ListComp"}
StmtKinds == {"Expr", "If"}

(***************************************************************************)
(* ast.parse on the fragment of Python the sources are written in: names,  *)
(* +, in, conditional expressions, parentheses, list displays, generator   *)
(* expressions and list comprehensions, expression statements and          *)
(* if/elif/else with indented suites.  legacy selects the positions that   *)
(* CPython up to 3.7 records (a comprehension at its first element, an     *)
(* elif branch at its test); from 3.8 on they are at the opening bracket   *)
(* and at the elif keyword.                                                *)
(***************************************************************************)
Letters == {"a", "b", "e", "f", "i", "l", "n", "o", "r", "s"}

Keywords == {<<"i", "f">>, <<"e", "l", "i", "f">>, <<"e", "l", "s", "e">>,
             <<"f", "o", "r">>, <<"i", "n">>}

OpChars == {"+", "(", ")", "[", "]", ":"}

\* (lineno, col_offset) of the character at offset off of text t
LineCol(t, off) ==
    LET nls == {k \in 1..off : t[k] = "\n"}
        lastnl == IF nls = {} THEN 0 ELSE CHOOSE k \in nls : \A m \in nls : m <= k
    IN  <<1 + Cardinality(nls), off - lastnl>>

RECURSIVE RunEnd(_, _, _)
RunEnd(t, i, chars) ==
    IF i < Len(t) /\ t[i + 1] \in chars THEN RunEnd(t, i + 1, chars) ELSE i

Token(type, text, pos) == [type |-> type, text |-> text, pos |-> pos]

LexError == [ok |-> FALSE, toks |-> <<>>]

\* NEWLINE for an unterminated last line, a DEDENT per open indentation
LexEnd(t, indents, bol, acc) ==
    LET eof == LineCol(t, Len(t))
        nl == IF bol THEN <<>> ELSE <<Token("NEWLINE", <<>>, eof)>>
        dedents == [k \in 1..(Len(indents) - 1) |-> Token("DEDENT", <<>>, eof)]
    IN  [ok |-> TRUE, toks |-> acc \o nl \o dedents \o <<Token("END", <<>>, eof)>>]

\* i: offset of the next character; depth: open brackets; indents: the
\* indentation stack; bol: at the beginning of a logical line
RECURSIVE Lex(_, _, _, _, _, _)
Lex(t, i, depth, indents, bol, acc) ==
    IF bol
    THEN LET j == RunEnd(t, i, {" "})
             col == j - i
             top == indents[Len(indents)]
         IN  IF j >= Len(t) THEN LexEnd(t, indents, TRUE, acc)
             ELSE IF t[j + 1] = "\n" THEN Lex(t, j + 1, 0, indents, TRUE, acc)
             ELSE IF col > top
             THEN Lex(t, j, 0, indents \o <<col>>, FALSE,
                      acc \o <<Token("INDENT", <<>>, LineCol(t, j))>>)
             ELSE IF col = top THEN Lex(t, j, 0, indents, FALSE, acc)
             ELSE IF \E k \in 1..Len(indents) : indents[k] = col
             THEN LET k == CHOOSE k \in 1..Len(indents) : indents[k] = col
                  IN  Lex(t, j, 0, SubSeq(indents, 1, k), FALSE,
                          acc \o [m \in 1..(Len(indents) - k) |->
                                      Token("DEDENT", <<>>, LineCol(t, j))])
             ELSE LexError
    ELSE IF i >= Len(t)
    THEN IF depth > 0 THEN LexError ELSE LexEnd(t, indents, FALSE, acc)
    ELSE LET c == t[i + 1]
         IN  IF c = " " THEN Lex(t, i + 1, depth, indents, FALSE, acc)
             ELSE IF c = "\n"
             THEN IF depth > 0 THEN Lex(t, i + 1, depth, indents, FALSE, acc)
                  ELSE Lex(t, i + 1, 0, indents, TRUE,
                           acc \o <<Token("NEWLINE", <<>>, LineCol(t, i))>>)
             ELSE IF c \in Letters
             THEN LET j == RunEnd(t, i, Letters)
                      w == SubSeq(t, i + 1, j)
                  IN  Lex(t, j, depth, indents, FALSE,
                          acc \o <<Token(IF w \in Keywords THEN "KW" ELSE "NAME",
                                         w, LineCol(t, i))>>)
             ELSE IF c \in OpChars
             THEN Lex(t, i + 1,
                      IF c \in {"(", "["} THEN depth + 1
                      ELSE IF c \in {")", "]"} THEN Max(depth - 1, 0) ELSE depth,
                      indents, FALSE, acc \o <<Token("OP", <<c>>, LineCol(t, i))>>)
             ELSE LexError

tokenize(t) == Lex(t, 0, 0, <<0>>, TRUE, <<>>)

\* toks[i]; past the end it is the END token
Tk(toks, i) == IF i <= Len(toks) THEN toks[i] ELSE toks[Len(toks)]

IsOp(tk, c) == tk.type = "OP" /\ tk.text = <<c>>
IsKw(tk, w) == tk.type = "KW" /\ tk.text = w

\* A parse result: the node, the index of the next token, and the position
\* of the first token of the construct (its brackets included)
Parsed(node, i, start) == [ok |-> TRUE, node |-> node, i |-> i, start |-> start]
ParseError == [ok |-> FALSE, node |-> <<>>, i |-> 0, start |-> NoPos]

AddNode == Node("Add", NoPos, <<>>, <<>>)
InNode == Node("In", NoPos, <<>>, <<>>)
LoadNode == Node("Load", NoPos, <<>>, <<>>)
StoreNode == Node("Store", NoPos, <<>>, <<>>)

ListNode(elems) == Node("list", NoPos, <<>>, elems)

NameNode(tk, ctx) == Node("Name", tk.pos, tk.text, <<ctx>>)

\* F(v) with v evaluated once, however often F uses it
Let(v, F(_)) == CHOOSE r \in {F(x) : x \in {v}} : TRUE

RECURSIVE ParseExpr(_, _, _)
RECURSIVE ParseOrTest(_, _, _)
RECURSIVE ParseArith(_, _, _)
RECURSIVE ParseAtom(_, _, _)
RECURSIVE ArithRest(_, _, _)
RECURSIVE CompareRest(_, _, _, _)

\* elt 'for' NAME 'in' expr close, after an open bracket at token i0
ParseComprehension(toks, legacy, i0, elt, kind, close) ==
    IF Tk(toks, elt.i + 1).type # "NAME" \/ ~IsKw(Tk(toks, elt.i + 2), <<"i", "n">>)
    THEN ParseError
    ELSE Let(ParseOrTest(toks, legacy, elt.i + 3), LAMBDA iter :
         IF ~iter.ok THEN ParseError
         ELSE IF ~IsOp(Tk(toks, iter.i), close) THEN ParseError
         ELSE Parsed(Node(kind,
                          IF legacy THEN elt.start ELSE Tk(toks, i0).pos,
                          <<>>,
                          <<elt.node,
                            ListNode(<<Node("comprehension", NoPos, <<>>,
                                            <<NameNode(Tk(toks, elt.i + 1), StoreNode),
                                              iter.node, ListNode(<<>>)>>)>>)>>),
                     iter.i + 1, Tk(toks, i0).pos))

ParseAtom(toks, legacy, i) ==
    LET tk == Tk(toks, i)
    IN  IF tk.type = "NAME" THEN Parsed(NameNode(tk, LoadNode), i + 1, tk.pos)
        ELSE IF IsOp(tk, "(")
        THEN IF IsOp(Tk(toks, i + 1), ")")
             THEN Parsed(Node("Tuple", tk.pos, <<>>, <<ListNode(<<>>), LoadNode>>),
                         i + 2, tk.pos)
             ELSE Let(ParseExpr(toks, legacy, i + 1), LAMBDA e :
                  IF ~e.ok THEN ParseError
                  ELSE IF IsKw(Tk(toks, e.i), <<"f", "o", "r">>)
                  THEN ParseComprehension(toks, legacy, i, e, "GeneratorExp", ")")
                  ELSE IF IsOp(Tk(toks, e.i), ")") THEN Parsed(e.node, e.i + 1, tk.pos)
                  ELSE ParseError)
        ELSE IF IsOp(tk, "[")
        THEN IF IsOp(Tk(toks, i + 1), "]")
             THEN Parsed(Node("List", tk.pos, <<>>, <<ListNode(<<>>), LoadNode>>),
                         i + 2, tk.pos)
             ELSE Let(ParseExpr(toks, legacy, i + 1), LAMBDA e :
                  IF ~e.ok THEN ParseError
                  ELSE IF IsKw(Tk(toks, e.i), <<"f", "o", "r">>)
                  THEN ParseComprehension(toks, legacy, i, e, "ListComp", "]")
                  ELSE IF IsOp(Tk(toks, e.i), "]")
                  THEN Parsed(Node("List", tk.pos, <<>>,
                                   <<ListNode(<<e.node>>), LoadNode>>),
                              e.i + 1, tk.pos)
                  ELSE ParseError)
        ELSE ParseError

\* left ('+' atom)*
ArithRest(toks, legacy, left) ==
    IF ~IsOp(Tk(toks, left.i), "+") THEN left
    ELSE Let(ParseAtom(toks, legacy, left.i + 1), LAMBDA r :
         IF ~r.ok THEN ParseError
         ELSE Let(Parsed(Node("BinOp", left.start, <<>>, <<left.node, AddNode, r.node>>),
                         r.i, left.start),
                  LAMBDA binop : ArithRest(toks, legacy, binop)))

ParseArith(toks, legacy, i) ==
    Let(ParseAtom(toks, legacy, i), LAMBDA a :
        IF ~a.ok THEN ParseError ELSE ArithRest(toks, legacy, a))

\* left ('in' arith)*, one Compare node for the whole chain; cur is left
\* before the first 'in'
CompareRest(toks, legacy, left, cur) ==
    IF ~IsKw(Tk(toks, cur.i), <<"i", "n">>) THEN cur
    ELSE Let(ParseArith(toks, legacy, cur.i + 1), LAMBDA r :
         LET ops == IF cur.i = left.i THEN <<>> ELSE cur.node.kids[2].kids
             comparators == IF cur.i = left.i THEN <<>> ELSE cur.node.kids[3].kids
         IN  IF ~r.ok THEN ParseError
             ELSE Let(Parsed(Node("Compare", left.start, <<>>,
                                  <<left.node, ListNode(Append(ops, InNode)),
                                    ListNode(Append(comparators, r.node))>>),
                             r.i, left.start),
                      LAMBDA compare : CompareRest(toks, legacy, left, compare)))

\* or_test: a comparison
ParseOrTest(toks, legacy, i) ==
    Let(ParseArith(toks, legacy, i), LAMBDA a :
        IF ~a.ok THEN ParseError ELSE CompareRest(toks, legacy, a, a))

\* test: or_test ['if' or_test 'else' test]
ParseExpr(toks, legacy, i) ==
    Let(ParseOrTest(toks, legacy, i), LAMBDA body :
        IF ~body.ok THEN ParseError
        ELSE IF ~IsKw(Tk(toks, body.i), <<"i", "f">>) THEN body
        ELSE Let(ParseOrTest(toks, legacy, body.i + 1), LAMBDA test :
             IF ~test.ok THEN ParseError
             ELSE IF ~IsKw(Tk(toks, test.i), <<"e", "l", "s", "e">>) THEN ParseError
             ELSE Let(ParseExpr(toks, legacy, test.i + 1), LAMBDA orelse :
                  IF ~orelse.ok THEN ParseError
                  ELSE Parsed(Node("IfExp", body.start, <<>>,
                                   <<test.node, body.node, orelse.node>>),
                              orelse.i, body.start))))

RECURSIVE ParseStmt(_, _, _)
RECURSIVE ParseStmts(_, _, _, _)
RECURSIVE ParseIf(_, _, _)
RECURSIVE ParseOrelse(_, _, _)

\* Statements up to the DEDENT or END that closes the block
ParseStmts(toks, legacy, i, acc) ==
    IF Tk(toks, i).type \in {"DEDENT", "END"} THEN Parsed(ListNode(acc), i, NoPos)
    ELSE Let(ParseStmt(toks, legacy, i), LAMBDA st :
         IF ~st.ok THEN ParseError
         ELSE Let(Append(acc, st.node),
                  LAMBDA stmts : ParseStmts(toks, legacy, st.i, stmts)))

\* ':' NEWLINE INDENT stmt+ DEDENT, with the ':' at token i
ParseSuite(toks, legacy, i) ==
    IF ~(/\ IsOp(Tk(toks, i), ":")
         /\ Tk(toks, i + 1).type = "NEWLINE"
         /\ Tk(toks, i + 2).type = "INDENT")
    THEN ParseError
    ELSE Let(ParseStmts(toks, legacy, i + 3, <<>>), LAMBDA b :
         IF ~b.ok \/ b.node.kids = <<>> \/ Tk(toks, b.i).type # "DEDENT" THEN ParseError
         ELSE Parsed(b.node, b.i + 1, NoPos))

\* The orelse of an if statement whose body ends before token i
ParseOrelse(toks, legacy, i) ==
    IF IsKw(Tk(toks, i), <<"e", "l", "i", "f">>)
    THEN Let(ParseIf(toks, legacy, i), LAMBDA br :
         IF ~br.ok THEN ParseError
         ELSE Parsed(ListNode(<<br.node>>), br.i, NoPos))
    ELSE IF IsKw(Tk(toks, i), <<"e", "l", "s", "e">>)
    THEN ParseSuite(toks, legacy, i + 1)
    ELSE Parsed(ListNode(<<>>), i, NoPos)

\* An if statement, or an elif branch, whose keyword is token i
ParseIf(toks, legacy, i) ==
    Let(ParseExpr(toks, legacy, i + 1), LAMBDA test :
        IF ~test.ok THEN ParseError
        ELSE Let(ParseSuite(toks, legacy, test.i), LAMBDA body :
             IF ~body.ok THEN ParseError
             ELSE Let(ParseOrelse(toks, legacy, body.i), LAMBDA orelse :
                  IF ~orelse.ok THEN ParseError
                  ELSE Parsed(Node("If",
                                   IF legacy /\ IsKw(Tk(toks, i), <<"e", "l", "i", "f">>)
                                   THEN test.start
                                   ELSE Tk(toks, i).pos,
                                   <<>>, <<test.node, body.node, orelse.node>>),
                              orelse.i, Tk(toks, i).pos))))

ParseStmt(toks, legacy, i) ==
    IF IsKw(Tk(toks, i), <<"i", "f">>) THEN ParseIf(toks, legacy, i)
    ELSE Let(ParseExpr(toks, legacy, i), LAMBDA e :
         IF ~e.ok \/ Tk(toks, e.i).type # "NEWLINE" THEN ParseError
         ELSE Parsed(Node("Expr", e.start, <<>>, <<e.node>>), e.i + 1, e.start))

\* ast.parse(t): [ok |-> FALSE] stands for SyntaxError
ast_parse(t, legacy) ==
    Let(tokenize(t), LAMBDA lx :
        IF ~lx.ok THEN [ok |-> FALSE, node |-> <<>>]
        ELSE Let(lx.toks, LAMBDA toks :
             Let(ParseStmts(toks, legacy, 1, <<>>), LAMBDA m :
                 IF m.ok /\ Tk(toks, m.i).type = "END"
                 THEN [ok |-> TRUE, node |-> Node("Module", NoPos, <<>>, <<m.node>>)]
                 ELSE [ok |-> FALSE, node |-> <<>>])))
(***************************************************************************)
(* macropy.core.unparse, the canonical unparser (Unparser of unparse.py):  *)
(* statements start with a newline and four spaces per level, binary       *)
(* operations and comparisons are parenthesised.                           *)
(***************************************************************************)
RECURSIVE UnparseAt(_, _)
RECURSIVE UnparseSeq(_, _, _)
RECURSIVE UnparseOrelse(_, _)

\* "\n" + "    " * indent + text
Fill(indent, text) == <<"\n">> \o Repeat(<<" ", " ", " ", " ">>, indent) \o text

UnparseSeq(nodes, indent, sep) ==
    IF nodes = <<>> THEN <<>>
    ELSE IF Len(nodes) = 1 THEN UnparseAt(nodes[1], indent)
    ELSE UnparseAt(nodes[1], indent) \o sep \o UnparseSeq(Tail(nodes), indent, sep)

\* The orelse of an If: a lone nested If prints as elif
UnparseOrelse(orelse, indent) ==
    IF Len(orelse.kids) = 1 /\ orelse.kids[1].kind = "If"
    THEN LET n == orelse.kids[1]
         IN  Fill(indent, <<"e", "l", "i", "f", " ">>) \o UnparseAt(n.kids[1], indent) \o <<":">>
             \o UnparseAt(n.kids[2], indent + 1) \o UnparseOrelse(n.kids[3], indent)
    ELSE IF orelse.kids # <<>>
    THEN Fill(indent, <<"e", "l", "s", "e">>) \o <<":">> \o UnparseAt(orelse, indent + 1)
    ELSE <<>>

UnparseAt(n, indent) ==
    CASE n.kind = "Module" -> UnparseAt(n.kids[1], indent)
      [] n.kind = "list" -> UnparseSeq(n.kids, indent, <<>>)
      [] n.kind = "Expr" -> Fill(indent, <<>>) \o UnparseAt(n.kids[1], indent)
      [] n.kind = "If" ->
            Fill(indent, <<"i", "f", " ">>) \o UnparseAt(n.kids[1], indent) \o <<":">>
            \o UnparseAt(n.kids[2], indent + 1) \o UnparseOrelse(n.kids[3], indent)
      [] n.kind = "Name" -> n.id
      [] n.kind = "BinOp" ->
            <<"(">> \o UnparseAt(n.kids[1], indent) \o <<" ", "+", " ">>
            \o UnparseAt(n.kids[3], indent) \o <<")">>
      [] n.kind = "Compare" ->
            <<"(">> \o UnparseAt(n.kids[1], indent)
            \o UnparseSeq([k \in 1..(2 * Len(n.kids[2].kids)) |->
                              IF k % 2 = 1 THEN n.kids[2].kids[(k + 1) \div 2]
                              ELSE n.kids[3].kids[k \div 2]],
                          indent, <<>>)
            \o <<")">>
      [] n.kind = "In" -> <<" ", "i", "n", " ">>
      [] n.kind = "IfExp" ->
            <<"(">> \o UnparseAt(n.kids[2], indent) \o <<" ", "i", "f", " ">>
            \o UnparseAt(n.kids[1], indent) \o <<" ", "e", "l", "s", "e", " ">>
            \o UnparseAt(n.kids[3], indent) \o <<")">>
      [] n.kind = "Tuple" ->
            <<"(">> \o UnparseSeq(n.kids[1].kids, indent, <<",", " ">>)
            \o (IF Len(n.kids[1].kids) = 1 THEN <<",">> ELSE <<>>) \o <<")">>
      [] n.kind = "List" ->
            <<"[">> \o UnparseSeq(n.kids[1].kids, indent, <<",", " ">>) \o <<"]">>
      [] n.kind = "GeneratorExp" ->
            <<"(">> \o UnparseAt(n.kids[1], indent) \o UnparseAt(n.kids[2], indent) \o <<")">>
      [] n.kind = "ListComp" ->
            <<"[">> \o UnparseAt(n.kids[1], indent) \o UnparseAt(n.kids[2], indent) \o <<"]">>
      [] n.kind = "comprehension" ->
            <<" ", "f", "o", "r", " ">> \o UnparseAt(n.kids[1], indent)
            \o <<" ", "i", "n", " ">> \o UnparseAt(n.kids[2], indent)

unparse(n) == UnparseAt(n, 0)

\* unparse(n) raises AttributeError for a bare operator or expression
\* context: the Unparser has no method for it
CanUnparse(n) == n.kind \notin {"Add", "In", "Load", "Store"}

\* t.strip()
IsSpace(c) == c \in {" ", "\n"}

RECURSIVE lstrip(_)
lstrip(t) == IF t # <<>> /\ IsSpace(Head(t)) THEN lstrip(Tail(t)) ELSE t

RECURSIVE rstrip(_)
rstrip(t) == IF t # <<>> /\ IsSpace(t[Len(t)]) THEN rstrip(SubSeq(t, 1, Len(t) - 1)) ELSE t

strip(t) == rstrip(lstrip(t))
(***************************************************************************)
(* exact_src.py: indexer, exact_src and exact_src_imp.                     *)
(***************************************************************************)
\* indexer.collect(n): the Walker visits a node, then its fields in order;
\* a node contributes (lineno, col_offset) when it unparses and has a
\* position
RECURSIVE collect(_)
RECURSIVE CollectSeq(_)
CollectSeq(ns) == IF ns = <<>> THEN <<>> ELSE collect(Head(ns)) \o CollectSeq(Tail(ns))

collect(n) ==
    (IF CanUnparse(n) /\ n.lineno > 0 THEN <<<<n.lineno, n.col_offset>>>> ELSE <<>>)
    \o CollectSeq(n.kids)

\* The nodes and lists of a tree, the tree included
RECURSIVE Subtrees(_)
Subtrees(n) == {n} \cup UNION {Subtrees(n.kids[k]) : k \in 1..Len(n.kids)}

\* Tuple order of (lineno, col_offset) pairs
PosLeq(p, q) == p[1] < q[1] \/ (p[1] = q[1] /\ p[2] <= q[2])

\* sorted(ps)[0] and sorted(ps)[-1]
SortedFirst(ps) ==
    LET S == {ps[k] : k \in 1..Len(ps)} IN CHOOSE p \in S : \A q \in S : PosLeq(p, q)
SortedLast(ps) ==
    LET S == {ps[k] : k \in 1..Len(ps)} IN CHOOSE p \in S : \A q \in S : PosLeq(q, p)

\* util.distinct: the offsets without duplicates, in increasing order
RECURSIVE SortedSeq(_)
SortedSeq(S) ==
    IF S = {} THEN <<>>
    ELSE LET m == CHOOSE v \in S : \A w \in S : v <= w IN <<m>> \o SortedSeq(S \ {m})

distinct(l) == SortedSeq({l[k] : k \in 1..Len(l)})

\* t.split(sep)
RECURSIVE split(_, _)
split(t, sep) ==
    LET i == Find(t, sep)
    IN  IF i = -1 THEN <<t>>
        ELSE <<SubSeq(t, 1, i)>> \o split(SubSeq(t, i + Len(sep) + 1, Len(t)), sep)

\* t.replace(old, new), old not empty
RECURSIVE replace(_, _, _)
replace(t, old, new) ==
    LET i == Find(t, old)
    IN  IF i = -1 THEN t
        ELSE SubSeq(t, 1, i) \o new \o replace(SubSeq(t, i + Len(old) + 1, Len(t)), old, new)

\* t[a:b] for 0 <= a
Slice(t, a, b) == SubSeq(t, a + 1, Min(b, Len(t)))

\* The thunks of lines 94-97
PositionsThunk(root) == collect(root)

LineLengthsThunk(source) ==
    LET ls == split(source, <<"\n">>) IN [k \in 1..Len(ls) |-> Len(ls[k])]

\* The thunk of lines 96-97 without + [len(src)]
IndexesThunk_NoSentinel(positions, ll, source) ==
    distinct([k \in 1..Len(positions) |-> linear_index(ll, positions[k][1], positions[k][2])])

\* The thunk of lines 96-97
IndexesThunk(positions, ll, source) ==
    distinct([k \in 1..Len(positions) |-> linear_index(ll, positions[k][1], positions[k][2])]
             \o <<Len(source)>>)

\* No kind has a transform: every candidate is the bare slice
Transform_None(kind, prelim) == prelim

\* _transforms.get(type(tree), "%s") % prelim
Transform(kind, prelim) ==
    IF kind = "GeneratorExp" THEN <<"(">> \o prelim \o <<")">>
    ELSE IF kind = "ListComp" THEN <<"[">> \o prelim \o <<"]">>
    ELSE prelim

Spaces(n) == Repeat(<<" ">>, n)

\* prelim as lines 64-75 leave it for the end offset end_index
Prelim(t, source, start_index, end_index) ==
    LET p1 == Transform(t.kind, Slice(source, start_index, end_index))
        p2 == IF t.kind \in StmtKinds
              THEN IF t.kind = "If" /\ ~StartsWithAt(p1, 0, <<"i", "f", " ">>)
                   THEN replace(p1, <<"\n">> \o Spaces(t.col_offset - 5), <<"\n">>)
                   ELSE replace(p1, <<"\n">> \o Spaces(t.col_offset), <<"\n">>)
              ELSE p1
    IN  IF t.kind = "list"
        THEN replace(p2, <<"\n">> \o Spaces(t.kids[1].col_offset), <<"\n">>)
        ELSE p2

\* The text handed to ast.parse, lines 78-81
Wrapped(t, prelim) == IF t.kind \in ExprKinds THEN <<"(">> \o prelim \o <<")">> ELSE prelim

\* The candidate is accepted as soon as it parses, the comparison of line
\* 83 left out
Matches_ParsesOnly(t, prelim, lg) == ast_parse(Wrapped(t, prelim), lg).ok

\* Lines 77-87: the candidate parses and unparses to what the tree unparses to
Matches(t, prelim, lg) ==
    LET parsed == ast_parse(Wrapped(t, prelim), lg)
    IN  parsed.ok /\ strip(unparse(parsed.node)) = strip(unparse(t))

\* The same end offsets, largest first
ScanOrder_Descending(last, succ) == [k \in 1..(succ - last + 1) |-> succ + 1 - k]

\* range(last_child_index, first_successor_index+1)
ScanOrder(last, succ) == [k \in 1..(succ - last + 1) |-> last + k - 1]

Outcome(kind, text, e, start, last, succ) ==
    [outcome |-> kind, text |-> text, end_index |-> e,
     start_index |-> start, last_child_index |-> last, first_successor_index |-> succ]

Raised(kind) == Outcome(kind, <<>>, -1, -1, -1, -1)

\* tree[0].col_offset on line 75 raises AttributeError when the first
\* element of the list is a node without a position
HasColOffset(t) == t.kind # "list" \/ t.kids[1].lineno > 0

\* The for loop of lines 62-87 and what follows it, lines 88-91
RECURSIVE Scan(_, _, _, _, _, _, _, _)
Scan(t, source, lg, start, last, succ, ends, k) ==
    IF k <= Len(ends) /\ ~HasColOffset(t)
    THEN Outcome("AttributeError", <<>>, -1, start, last, succ)
    ELSE IF k > Len(ends)
    THEN IF t.kind # "If" THEN Outcome("ExactSrcException", <<>>, -1, start, last, succ)
         ELSE IF ends = <<>> THEN Outcome("UnboundLocalError", <<>>, -1, start, last, succ)
         ELSE Outcome("elif",
                      <<"e", "l", "i", "f", " ">> \o Prelim(t, source, start, ends[Len(ends)]),
                      ends[Len(ends)], start, last, succ)
    ELSE LET prelim == Prelim(t, source, start, ends[k])
         IN  IF Matches(t, prelim, lg)
             THEN Outcome("match", prelim, ends[k], start, last, succ)
             ELSE Scan(t, source, lg, start, last, succ, ends, k + 1)

\* The while loop of lines 57-59; ok is FALSE when it reads past the index
RECURSIVE Extend(_, _, _, _)
Extend(idx, last, i, succ) ==
    IF ~LoopCond(idx, last, i, succ) THEN [ok |-> TRUE, succ |-> succ]
    ELSE IF i + 1 >= Len(idx) THEN [ok |-> FALSE, succ |-> succ]
    ELSE Extend(idx, last, i + 1, At(idx, i + 1))

\* exact_src_imp(tree, src, indexes, line_lengths) once line_lengths()
\* returned ll; idx is what indexes() returns
exact_src_imp(t, source, idx, ll, lg) ==
    LET all_child_pos == collect(t)
    IN  IF all_child_pos = <<>> THEN Raised("IndexError")
        ELSE LET first == SortedFirst(all_child_pos)
                 final == SortedLast(all_child_pos)
                 start == linear_index(ll, first[1], first[2])
                 last == linear_index(ll, final[1], final[2])
             IN  IF \A k \in 1..Len(idx) : idx[k] # last THEN Raised("ValueError")
                 ELSE LET i0 == FirstIdx(idx, last)
                          b == Extend(idx, last, i0, At(idx, i0))
                      IN  IF ~b.ok THEN Raised("IndexError")
                          ELSE Scan(t, source, lg, start, last, b.succ,
                                    ScanOrder(last, b.succ), 1)

\* util.Lazy.__call__: the cell after the call, the thunk's value being v
LazyCall(cell, v) == IF cell = <<>> THEN <<v>> ELSE cell

\* 1 when the call runs the thunk
ThunkRuns(cell) == IF cell = <<>> THEN 1 ELSE 0

\* Bound of Spec: no Lazy is made to run its thunk more often than this
MaxThunkRuns == 3

\* The source texts
SrcBinOp == <<"a", " ", "+", " ", "b">>
SrcSpaced == <<"a", " ", " ", "+", " ", "b", " ">>
SrcNested == <<"(", "a", " ", "+", " ", "b", ")", " ", "+", " ", "a">>
SrcGenExp ==
    <<"(", "a", " ", "f", "o", "r", " ", "a", " ", "i", "n", " ",
      "b", ")">>
SrcListComp ==
    <<"[", "a", " ", "f", "o", "r", " ", "a", " ", "i", "n", " ",
      "b", "]">>
SrcIfExp == <<"a", " ", "i", "f", " ", "b", " ", "e", "l", "s", "e", " ", "a">>
SrcTwoStmts == <<"a", "\n", "b", "\n">>
SrcElif ==
    <<"i", "f", " ", "a", ":", "\n", " ", " ", "b", "\n", "e", "l",
      "i", "f", " ", "b", ":", "\n", " ", " ", "a", "\n">>
SrcNestedIf ==
    <<"i", "f", " ", "a", ":", "\n", " ", " ", "i", "f", " ", "b",
      ":", "\n", " ", " ", " ", " ", "a", "\n", " ", " ", "b",
      "\n", "b">>
SrcElse ==
    <<"i", "f", " ", "a", ":", "\n", " ", " ", "b", "\n", "e", "l",
      "s", "e", ":", "\n", " ", " ", "a", "\n", " ", " ", "b",
      "\n">>

Sources == {SrcBinOp, SrcSpaced, SrcNested, SrcGenExp, SrcListComp, SrcIfExp,
            SrcTwoStmts, SrcElif, SrcNestedIf, SrcElse}

\* exact_src(tree, src) has returned its closure
Init ==
    /\ legacy_positions \in BOOLEAN
    /\ src \in Sources
    /\ tree = ast_parse(src, legacy_positions).node
    /\ positions_lazy = <<>>
    /\ line_lengths_lazy = <<>>
    /\ indexes_lazy = <<>>
    /\ thunk_runs = [positions |-> 0, line_lengths |-> 0, indexes |-> 0]
    /\ query = <<>>
    /\ result = Raised("none")
    /\ idleLinear
    /\ idleBound
    /\ idleLog

\* exact_src_imp(t, src, indexes, line_lengths) on the three Lazy cells:
\* line_lengths() is called on line 49 before all_child_pos[0] is read,
\* indexes() on line 53
ResolveWith(t, positions_cell, line_lengths_cell, indexes_cell) ==
    LET ll_cell == LazyCall(line_lengths_cell, LineLengthsThunk(src))
        pos_cell == IF indexes_cell = <<>>
                    THEN LazyCall(positions_cell, PositionsThunk(tree))
                    ELSE positions_cell
        idx_cell == LazyCall(indexes_cell, IndexesThunk(pos_cell[1], ll_cell[1], src))
    IN  /\ \A k \in DOMAIN thunk_runs : thunk_runs[k] < MaxThunkRuns
        /\ query' = t
        /\ line_lengths_lazy' = ll_cell
        /\ IF collect(t) = <<>>
           THEN /\ result' = Raised("IndexError")
                /\ positions_lazy' = positions_cell
                /\ indexes_lazy' = indexes_cell
                /\ thunk_runs' = [thunk_runs EXCEPT
                                    !.line_lengths = @ + ThunkRuns(line_lengths_cell)]
           ELSE /\ result' = exact_src_imp(t, src, idx_cell[1], ll_cell[1], legacy_positions)
                /\ positions_lazy' = pos_cell
                /\ indexes_lazy' = idx_cell
                /\ thunk_runs' = [positions |-> thunk_runs.positions
                                        + (IF indexes_cell = <<>> THEN ThunkRuns(positions_cell) ELSE 0),
                                  line_lengths |-> thunk_runs.line_lengths
                                        + ThunkRuns(line_lengths_cell),
                                  indexes |-> thunk_runs.indexes + ThunkRuns(indexes_cell)]
        /\ UNCHANGED <<legacy_positions, src, tree, notSrc>>

\* The closure with Lazy objects of its own for every call
Resolve_FreshLazies(t) == ResolveWith(t, <<>>, <<>>, <<>>)

\* lambda t: exact_src_imp(t, src, indexes, line_lengths), line 98
Resolve(t) == ResolveWith(t, positions_lazy, line_lengths_lazy, indexes_lazy)

ResolveAny == \E t \in Subtrees(tree) : Resolve(t)

Next == ResolveAny

Spec == Init /\ [][Next]_vars
(***************************************************************************)
(* Properties of exact_src, stated over Spec.                              *)
(***************************************************************************)
\* C1: whenever resolve(subtree) returns a text, reparsing that text with
\* the same wrapping rules applied (the delimiter pair of the comprehension
\* kinds, parentheses for expression kinds) gives a tree whose trimmed
\* unparsed form equals the trimmed unparsed form of the subtree.
C1_RoundTrip ==
    result.outcome \in {"match", "elif"} =>
        LET re == ast_parse(Wrapped(query, Transform(query.kind, result.text)),
                            legacy_positions)
        IN  re.ok /\ strip(unparse(re.node)) = strip(unparse(query))

\* C1, amended: whenever resolve(subtree) returns the text of a successful
\* match (not the "elif " fallback), reparsing the returned text as it is,
\* in parentheses when the subtree is an expression, gives a tree whose
\* trimmed unparsed form equals the trimmed unparsed form of the subtree;
\* the delimiter pair of a comprehension is already part of the text.
C1_RoundTripOfMatch ==
    result.outcome = "match" =>
        LET re == ast_parse(IF query.kind \in ExprKinds
                            THEN <<"(">> \o result.text \o <<")">>
                            ELSE result.text,
                            legacy_positions)
        IN  re.ok /\ strip(unparse(re.node)) = strip(unparse(query))

\* A nested if statement was resolved: its text is returned dedented.
C1_Witness ==
    /\ result.outcome = "match"
    /\ query.kind = "If"
    /\ query.col_offset > 0
    /\ Contains(result.text, <<"\n">>)

\* C2: among the end offsets e of the scan range [last, successor] whose
\* candidate passes the reparse-equivalence check, resolve returns the text
\* for the smallest; no larger matching e is returned when a smaller one
\* matches.
C2_Minimality ==
    result.outcome = "match" =>
        /\ result.end_index \in result.last_child_index..result.first_successor_index
        /\ result.text = Prelim(query, src, result.start_index, result.end_index)
        /\ Matches(query, result.text, legacy_positions)
        /\ \A e \in result.last_child_index..(result.end_index - 1) :
                ~Matches(query, Prelim(query, src, result.start_index, e), legacy_positions)

\* A match was returned although a larger end offset of the range matches
\* too.
C2_Witness ==
    /\ result.outcome = "match"
    /\ \E e \in (result.end_index + 1)..result.first_successor_index :
            Matches(query, Prelim(query, src, result.start_index, e), legacy_positions)

\* C3: on a successful match at end offset e resolve returns the un-wrapped
\* candidate: neither the comprehension delimiter pair nor the expression
\* parentheses are part of the returned text, so for a subtree kind with no
\* indentation stripping the result is exactly source[start:e].
C3_UnwrappedReturn ==
    (result.outcome = "match" /\ query.kind \notin StmtKinds \cup {"list"}) =>
        result.text = Slice(src, result.start_index, result.end_index)

\* C3, amended: on a successful match at end offset e only the expression
\* parentheses are left out of the returned text; for a subtree kind with
\* no indentation stripping the result is source[start:e], enclosed in
\* "(" ")" for a GeneratorExp and in "[" "]" for a ListComp.
C3_ReturnKeepsDelimiters ==
    (result.outcome = "match" /\ query.kind \notin StmtKinds \cup {"list"}) =>
        LET slice == Slice(src, result.start_index, result.end_index)
        IN  result.text = CASE query.kind = "GeneratorExp" -> <<"(">> \o slice \o <<")">>
                            [] query.kind = "ListComp" -> <<"[">> \o slice \o <<"]">>
                            [] OTHER -> slice

\* A comprehension was resolved.
C3_Witness ==
    /\ result.outcome = "match"
    /\ query.kind \in {"GeneratorExp", "ListComp"}

\* C4: for every query in which no end offset e of the scan range gives a
\* reparse-equivalent candidate, resolve raises ExactSrcException when the
\* subtree is not an If, and when it is an If returns the last attempted
\* candidate prefixed with "elif "; it returns no empty or unprefixed
\* candidate and fails with no other error.
C4_NoMatchOutcome ==
    (/\ result.outcome # "none"
     /\ result.last_child_index >= 0
     /\ \A e \in result.last_child_index..result.first_successor_index :
            ~(/\ HasColOffset(query)
              /\ Matches(query, Prelim(query, src, result.start_index, e),
                         legacy_positions)))
    => IF query.kind = "If"
       THEN /\ result.outcome = "elif"
            /\ result.text = <<"e", "l", "i", "f", " ">>
                                \o Prelim(query, src, result.start_index,
                                          result.first_successor_index)
            /\ Len(result.text) > 5
       ELSE result.outcome = "ExactSrcException"

\* C5: when the queried subtree contains no serializable node (its position
\* samples are empty) resolve fails with MalformedQuery rather than by
\* indexing into the empty sample sequence, and returns no text.
C5_EmptySampleMalformedQuery ==
    (result.outcome # "none" /\ collect(query) = <<>>) =>
        result.outcome = "MalformedQuery"

C7_Memoization ==
    [][/\ line_lengths_lazy # <<>> => line_lengths_lazy' = line_lengths_lazy
       /\ indexes_lazy # <<>> => indexes_lazy' = indexes_lazy
       /\ thunk_runs'.line_lengths <= 1
       /\ thunk_runs'.indexes <= 1]_vars

\* A query that stops before it uses the Offset Index came after the query
\* that computed it: both tables are set, each computed once.
C7_Witness ==
    /\ result.outcome = "IndexError"
    /\ indexes_lazy # <<>>
    /\ line_lengths_lazy # <<>>
    /\ thunk_runs.indexes = 1
    /\ thunk_runs.line_lengths = 1
====
